---- MODULE Spec2Model ----
(***************************************************************************)
(* Model of physics/ohms_law.py: the function ohms_law(voltage, current,   *)
(* resistance).                                                            *)
(*                                                                         *)
(* A call is one atomic step.  The function keeps nothing between calls,   *)
(* so the state is the most recent call: its arguments and how it ended.   *)
(*                                                                         *)
(* Values.  An argument is a number, the Python object None, or is left    *)
(* out of the call altogether (Absent).  A number is kept as a reduced     *)
(* fraction num/den with den > 0, so that the result of Python's true      *)
(* division is a value of its own and not an integer quotient; a fraction  *)
(* that is not exactly representable stands for the nearest double.        *)
(***************************************************************************)
EXTENDS Integers, FiniteSets, Sequences, TLC

\* ---- bounds of the explored inputs ----
\* numeric arguments of Spec range over -MaxNeg .. MaxVal
MaxNeg == 1
MaxVal == 4

VARIABLES
  args,      \* arguments of the most recent call
  outcome    \* how the most recent call ended

vars == <<args, outcome>>

Fields == {"voltage", "current", "resistance"}

\* ---- values ----
Absent == [tag |-> "absent", num |-> 0, den |-> 1]
None == [tag |-> "none", num |-> 0, den |-> 1]
Num(n) == [tag |-> "num", num |-> n, den |-> 1]

RECURSIVE GCD(_, _)
GCD(a, b) == IF b = 0 THEN a ELSE GCD(b, a % b)

Abs(n) == IF n < 0 THEN -n ELSE n

\* the number n/d (d # 0) in lowest terms with a positive denominator
Frac(n, d) ==
  LET g == GCD(Abs(n), Abs(d))
      s == IF d < 0 THEN -1 ELSE 1
  IN [tag |-> "num", num |-> (s * n) \div g, den |-> (s * d) \div g]

\* ---- outcomes of a call ----
NoOutcome == [kind |-> "none", exc |-> "", what |-> "", key |-> "", value |-> None]
Pass == [kind |-> "pass", exc |-> "", what |-> "", key |-> "", value |-> None]
Raise(exc, what) == [kind |-> "raise", exc |-> exc, what |-> what, key |-> "", value |-> None]
Return(key, value) == [kind |-> "return", exc |-> "", what |-> "", key |-> key, value |-> value]
ReturnNone == [kind |-> "return", exc |-> "", what |-> "", key |-> "", value |-> None]

\* ---- arithmetic and comparison as Python evaluates them ----
\* x < 0 for a number x
IsNegative(x) == x.num < 0

\* {key: a / b}
TrueDiv(key, a, b) ==
  IF a.tag # "num" \/ b.tag # "num" THEN Raise("TypeError", "NoneOperand")
  ELSE IF b.num = 0 THEN Raise("ZeroDivisionError", "DivisionByZero")
  ELSE Return(key, Frac(a.num * b.den, a.den * b.num))

\* {key: a * b}
Product(key, a, b) ==
  IF a.tag # "num" \/ b.tag # "num" THEN Raise("TypeError", "NoneOperand")
  ELSE Return(key, Frac(a.num * b.num, a.den * b.den))

\* ---- the function body ----
IsNotNone(param) == IF param # None THEN 1 ELSE 0

\* sum(param is not None for param in [voltage, current, resistance])
ProvidedCount(voltage, current, resistance) ==
  IsNotNone(voltage) + IsNotNone(current) + IsNotNone(resistance)

\* a count check that lets three provided parameters through
CountCheckAtLeastTwo(voltage, current, resistance) ==
  IF ProvidedCount(voltage, current, resistance) < 2
  THEN Raise("ValueError", "ArgumentCount")
  ELSE Pass

\* a count check that only rejects three provided parameters
CountCheckOnlyThree(voltage, current, resistance) ==
  IF ProvidedCount(voltage, current, resistance) = 3
  THEN Raise("ValueError", "ArgumentCount")
  ELSE Pass

\* Check that exactly two parameters are provided
CountCheck(voltage, current, resistance) ==
  IF ProvidedCount(voltage, current, resistance) # 2
  THEN Raise("ValueError", "ArgumentCount")
  ELSE Pass

\* Check for negative values; comparing None with 0 raises TypeError
NegativeCheck(voltage, current, resistance) ==
  IF current = None THEN Raise("TypeError", "NoneComparison")
  ELSE IF IsNegative(current) THEN Raise("ValueError", "Current")
  ELSE IF voltage = None THEN Raise("TypeError", "NoneComparison")
  ELSE IF IsNegative(voltage) THEN Raise("ValueError", "Voltage")
  ELSE IF resistance = None THEN Raise("TypeError", "NoneComparison")
  ELSE IF IsNegative(resistance) THEN Raise("ValueError", "Resistance")
  ELSE Pass

\* Calculate the missing parameter
Calculate(voltage, current, resistance) ==
  IF current = None THEN TrueDiv("current", voltage, resistance)
  ELSE IF voltage = None THEN Product("voltage", current, resistance)
  ELSE IF resistance = None THEN TrueDiv("resistance", voltage, current)
  ELSE ReturnNone

\* a body that checks for negative values before it counts the parameters
BodyNegativeFirst(voltage, current, resistance) ==
  LET n == NegativeCheck(voltage, current, resistance)
      c == CountCheck(voltage, current, resistance)
  IN IF n # Pass THEN n
     ELSE IF c # Pass THEN c
     ELSE Calculate(voltage, current, resistance)

\* the statements of the body in order; the first raise ends the call
Body(voltage, current, resistance) ==
  LET c == CountCheck(voltage, current, resistance)
      n == NegativeCheck(voltage, current, resistance)
  IN IF c # Pass THEN c
     ELSE IF n # Pass THEN n
     ELSE Calculate(voltage, current, resistance)

\* the call: no parameter has a default, so leaving one out is a TypeError
ohms_law(voltage, current, resistance) ==
  IF Absent \in {voltage, current, resistance}
  THEN Raise("TypeError", "MissingArgument")
  ELSE Body(voltage, current, resistance)

\* ---- the state machine ----
Numbers == {Num(n) : n \in (0 - MaxNeg) .. MaxVal}
Values == {Absent, None} \cup Numbers

Triple(v, i, r) == [voltage |-> v, current |-> i, resistance |-> r]

NoArgs == Triple(Absent, Absent, Absent)

Init ==
  /\ args = NoArgs
  /\ outcome = NoOutcome

\* one call of ohms_law
Call(v, i, r) ==
  /\ args' = Triple(v, i, r)
  /\ outcome' = ohms_law(v, i, r)

Next == \E v \in Values, i \in Values, r \in Values : Call(v, i, r)

Spec == Init /\ [][Next]_vars

\* ---- vocabulary of the properties ----
called == outcome.kind # "none"
Known(x) == x.tag = "num"
NonNegative(x) == x.num >= 0
AllPassed == \A f \in Fields : args[f] # Absent
NumKnown == Cardinality({f \in Fields : Known(args[f])})
ExactlyTwoKnown == called /\ AllPassed /\ NumKnown = 2
KnownNonNegative == \A f \in Fields : Known(args[f]) => NonNegative(args[f])
SomeKnownNegative == \E f \in Fields : Known(args[f]) /\ ~NonNegative(args[f])

InvalidArgumentCount == Raise("ValueError", "ArgumentCount")
DivisionByZero == Raise("ZeroDivisionError", "DivisionByZero")
NegativeErrors == {"Current", "Voltage", "Resistance"}

\* the field that is not a number in the most recent call
Unknown == CHOOSE f \in Fields : ~Known(args[f])

\* the mapping V = I * R gives for the most recent call (two known numbers,
\* the divisor not zero)
Expected ==
  IF Unknown = "current"
    THEN Return("current", Frac(args.voltage.num, args.resistance.num))
  ELSE IF Unknown = "voltage"
    THEN Return("voltage", Num(args.current.num * args.resistance.num))
  ELSE Return("resistance", Frac(args.voltage.num, args.current.num))

DivisorNonZero ==
  /\ Unknown = "current" => args.resistance.num # 0
  /\ Unknown = "resistance" => args.current.num # 0

\* C1: when every parameter is passed (a number or None) and the number of
\* numbers is not two, the call raises the argument-count error and returns
\* no mapping.
C1_InvalidArgumentCount ==
  (called /\ AllPassed /\ NumKnown # 2) => outcome = InvalidArgumentCount

C1_Witness ==
  called /\ AllPassed /\ NumKnown = 3 /\ KnownNonNegative
  /\ outcome = InvalidArgumentCount

\* C2: with exactly two parameters provided, both >= 0, the negativity
\* validation passes: the unknown parameter is never compared as a number
\* and no negativity error is raised.
C2_UnknownNeverCompared ==
  (ExactlyTwoKnown /\ KnownNonNegative) =>
    ~(outcome.kind = "raise"
      /\ outcome.what \in NegativeErrors \cup {"NoneComparison"})

\* C3: with exactly two parameters provided, both >= 0 and the divisor not
\* zero, the call returns the one-entry mapping from the unknown parameter
\* to voltage / resistance, current * resistance or voltage / current.
C3_ComputesUnknown ==
  (ExactlyTwoKnown /\ KnownNonNegative /\ DivisorNonZero) => outcome = Expected

\* the first negative parameter in the order current, voltage, resistance
FirstNegative ==
  IF Known(args.current) /\ ~NonNegative(args.current) THEN "Current"
  ELSE IF Known(args.voltage) /\ ~NonNegative(args.voltage) THEN "Voltage"
  ELSE "Resistance"

\* C4: with exactly two parameters provided, one of them negative, the call
\* raises NegativeValue for the first negative parameter in the order
\* current, voltage, resistance.
C4_NegativeValue ==
  (ExactlyTwoKnown /\ SomeKnownNegative) =>
    outcome = Raise("ValueError", FirstNegative)

\* C5: a division by a divisor that is exactly zero raises DivisionByZero;
\* when voltage is the unknown a zero operand gives {voltage: 0}.
C5_DivisionByZero ==
  (ExactlyTwoKnown /\ KnownNonNegative) =>
    /\ (Unknown = "current" /\ args.resistance.num = 0) => outcome = DivisionByZero
    /\ (Unknown = "resistance" /\ args.current.num = 0) => outcome = DivisionByZero
    /\ (Unknown = "voltage" /\ 0 \in {args.current.num, args.resistance.num})
         => outcome = Return("voltage", Num(0))

\* C6: a call that names two parameters and leaves the third out is
\* accepted and returns the computed one-entry mapping.
C6_OmittedAccepted ==
  ( /\ called
    /\ Cardinality({f \in Fields : args[f] = Absent}) = 1
    /\ NumKnown = 2
    /\ KnownNonNegative
    /\ DivisorNonZero ) => outcome = Expected

\* C7: round trip: for voltage v >= 0 and current i > 0 with v / i exact,
\* the call with resistance unknown returns {resistance: r}, and the call
\* with that current and resistance r returns {voltage: v}.
C7_RoundTrip ==
  ( /\ ExactlyTwoKnown
    /\ args.resistance = None
    /\ args.voltage.num >= 0
    /\ args.current.num > 0
    /\ args.voltage.num % args.current.num = 0 ) =>
      /\ outcome.kind = "return"
      /\ outcome.key = "resistance"
      /\ ohms_law(None, args.current, outcome.value)
           = Return("voltage", args.voltage)

\* C9: the argument count is checked before negativity: when the number of
\* provided parameters is not two and a provided parameter is negative, the
\* error is the argument-count error, never a negative-value error.
C9_CountBeforeNegative ==
  (called /\ AllPassed /\ NumKnown # 2 /\ SomeKnownNegative) =>
    /\ outcome.kind = "raise"
    /\ outcome.what = "ArgumentCount"
    /\ outcome.what \notin NegativeErrors

C9_Witness ==
  /\ called
  /\ AllPassed
  /\ NumKnown = 1
  /\ Known(args.voltage)
  /\ ~NonNegative(args.voltage)
  /\ outcome.what = "ArgumentCount"

\* C10: no call returns None: a call ends by raising an error or by
\* returning a mapping with exactly one key.
C10_NeverReturnsNone ==
  called =>
    /\ outcome # ReturnNone
    /\ \/ outcome.kind = "raise"
       \/ /\ outcome.kind = "return"
          /\ outcome.key \in Fields
          /\ Known(outcome.value)

C10_Witness ==
  ExactlyTwoKnown /\ outcome # InvalidArgumentCount /\ outcome # ReturnNone

====
